---- MODULE Spec2Model ----
(***************************************************************************)
(* Structural validators of the MDX verifier                               *)
(* (scripts/verify-mdx/validators.mjs) and the part of verifyMDX that      *)
(* runs them over a parsed document tree.                                  *)
(*                                                                         *)
(* A JavaScript string built by a template literal is modelled as the      *)
(* sequence of its fragments; a paragraph's text is a sequence of          *)
(* one-character strings.  A call that may raise returns a record          *)
(* [threw, errors]: threw = TRUE stands for a TypeError leaving the call   *)
(* (the local errors array is then lost).                                  *)
(***************************************************************************)
EXTENDS Integers, Sequences, FiniteSets, TLC

VARIABLES
  mdxAst,   \* verifyMDX: the parsed tree, or NullAst when createAST threw
  pc,       \* verifyMDX: "validators", "checked", "done" or "threw"
  vi,       \* index of the next entry of `validators` flatMap will call
  mapped,   \* what flatMap has collected so far
  errors,   \* verifyMDX: the `errors` variable
  calls,    \* history: the outcome of every validator invocation so far
  run       \* how many times verifyMDX has been entered for this file

vars == <<mdxAst, pc, vi, mapped, errors, calls, run>>

----------------------------------------------------------------------------
(* Bounds of the model *)

MaxItems == 2      \* children of a TabsBar / TabsPages
MaxChildren == 3   \* immediate children of a Steps / Tabs node
MaxTop == 2        \* top-level components of a document
MaxRuns == 2       \* times verifyMDX is run on the same file

\* the id values an item may carry
Ids == {"a", "b", "c"}

SeqsUpTo(S, n) == UNION {[1..k -> S] : k \in 0..n}

----------------------------------------------------------------------------
(* Tree model: nodes as the parser produces them *)

Undefined == "undefined"

ERROR_TYPES ==
  [VALIDATION_ERROR |-> "VALIDATION_ERROR", MDX_ERROR |-> "MDX_ERROR",
   FRONTMATTER_ERROR |-> "FRONTMATTER_ERROR",
   FRONTMATTER_FIELD_ERROR |-> "FRONTMATTER_FIELD_ERROR"]

NullAst == [type |-> "null"]

Node(type, name, attributes, children, value) ==
  [type |-> type, name |-> name, attributes |-> attributes,
   children |-> children, value |-> value]

Elem(name, attributes, children) ==
  Node("mdxBlockElement", name, attributes, children, <<>>)

Text(chars) == Node("text", Undefined, <<>>, <<>>, chars)
Paragraph(chars) == Node("paragraph", Undefined, <<>>, <<Text(chars)>>, <<>>)
Code == Node("code", Undefined, <<>>, <<>>, <<"x">>)
Root(children) == Node("root", Undefined, <<>>, children, <<>>)

IdAttr(v) == [type |-> "mdxAttribute", name |-> "id", value |-> v]
LabelAttr == [type |-> "mdxAttribute", name |-> "label", value |-> "L"]

HasPosition(node) == "position" \in DOMAIN node

\* The parser's position metadata: every node of a tree gets its own start
\* line (child i of the node at line l starts at line 10*l + i).
RECURSIVE Annotate(_, _, _)
Annotate(n, line, column) ==
  [type |-> n.type, name |-> n.name, attributes |-> n.attributes,
   value |-> n.value,
   children |-> [i \in 1..Len(n.children) |->
                   Annotate(n.children[i], 10 * line + i, column + 2)],
   position |-> [start |-> [line |-> line, column |-> column]]]

----------------------------------------------------------------------------
(* Helpers of codemods/utils/mdxast.js *)

RECURSIVE getNodeText(_)
getNodeText(node) ==
  IF node.type = "text" THEN node.value
  ELSE LET f[i \in 0..Len(node.children)] ==
             IF i = 0 THEN <<>> ELSE f[i - 1] \o getNodeText(node.children[i])
       IN f[Len(node.children)]

isEmptyParagraph(node) ==
  /\ node.type = "paragraph"
  /\ \A i \in 1..Len(getNodeText(node)) : getNodeText(node)[i] \in {" ", "\n"}

----------------------------------------------------------------------------
(* nodeDescriptor *)

TruncLen == 30

\* String.prototype.replace with a string pattern: the first match only
ReplaceFirst(s, c) ==
  IF \E i \in 1..Len(s) : s[i] = c
  THEN LET k == CHOOSE i \in 1..Len(s) :
                  s[i] = c /\ \A j \in 1..(i - 1) : s[j] # c
       IN SubSeq(s, 1, k - 1) \o SubSeq(s, k + 1, Len(s))
  ELSE s

Slice(s, n) == SubSeq(s, 1, IF Len(s) < n THEN Len(s) ELSE n)

nodeDescriptor(node) ==
  IF node.type = "mdxBlockElement" THEN <<"<", node.name, ">">>
  ELSE IF node.type = "paragraph"
  THEN LET text == ReplaceFirst(getNodeText(node), "\n")
           truncated == Slice(text, TruncLen)
       IN <<"\"">> \o truncated
          \o (IF Len(truncated) # Len(text) THEN <<"...">> ELSE <<>>)
          \o <<"\"">>
  ELSE <<node.type>>

----------------------------------------------------------------------------
(* Outcomes and diagnostics *)

Ok(errs) == [threw |-> FALSE, errors |-> errs]
Thrown == [threw |-> TRUE, errors |-> <<>>]

\* node.position.start: a TypeError when the node carries no position
StartOf(node) ==
  IF HasPosition(node) THEN [threw |-> FALSE, start |-> node.position.start]
  ELSE [threw |-> TRUE, start |-> <<>>]

\* (variant: the position is read from the first element of the Array)
StartOfFirst(nodes) == StartOf(nodes[1])

\* tabsBar.position.start with tabsBar still the filtered Array: an Array has
\* no `position` property, so reading `.start` of undefined is a TypeError
StartOfArray(nodes) == [threw |-> TRUE, start |-> <<>>]

\* node.position?.start ?? {}
OptionalStart(node) == IF HasPosition(node) THEN node.position.start ELSE <<>>

\* errors.push({ ...nodeInfo, <fields> })
Push(errs, info, fields) ==
  IF info.threw THEN Thrown ELSE Ok(Append(errs, fields @@ info.start))

\* Array.prototype.flat, one level: what flatMap does to the mapped arrays
Flat(arrays) ==
  LET f[i \in 0..Len(arrays)] == IF i = 0 THEN <<>> ELSE f[i - 1] \o arrays[i]
  IN f[Len(arrays)]

\* children.forEach((child) => errors.push({...child.position.start, reason, type})),
\* reasons[i] being the reason built for children[i]
PushEach(children, errs, reasons) ==
  LET f[i \in 0..Len(children)] ==
        IF i = 0 THEN Ok(errs)
        ELSE IF f[i - 1].threw THEN f[i - 1]
        ELSE Push(f[i - 1].errors, StartOf(children[i]),
                  [reason |-> reasons[i], type |-> ERROR_TYPES.VALIDATION_ERROR])
  IN f[Len(children)]

----------------------------------------------------------------------------
(* unist-util-visit, as the validators use it *)

RECURSIVE PreOrder(_)
PreOrder(node) ==
  <<node>> \o Flat([i \in 1..Len(node.children) |-> PreOrder(node.children[i])])

\* visit(tree, (node) => node.name === name, visitor): the nodes the visitor is
\* called with, once each, in depth-first pre-order.  The visitor's return
\* value never ends the walk: it is either undefined or the non-empty errors
\* array, whose first element is a diagnostic object and so neither EXIT nor
\* SKIP.
visit(tree, name) ==
  SelectSeq(PreOrder(tree), LAMBDA node : node.name = name)

----------------------------------------------------------------------------
(* validateSteps *)

StepsReason(child) ==
  <<"<Steps> component must only contain <Step> components as immediate children but found ">>
  \o nodeDescriptor(child)

\* (variant: only named children are compared with Step, prose is let through)
StepsVisitorNamedOnly(node, errs) ==
  LET nonStepChildren ==
        SelectSeq(node.children,
                  LAMBDA child : child.name # "Step" /\ child.name # Undefined)
  IN PushEach(nonStepChildren, errs,
              [i \in 1..Len(nonStepChildren) |-> StepsReason(nonStepChildren[i])])

StepsVisitor(node, errs) ==
  LET nonStepChildren == SelectSeq(node.children, LAMBDA child : child.name # "Step")
  IN PushEach(nonStepChildren, errs,
              [i \in 1..Len(nonStepChildren) |-> StepsReason(nonStepChildren[i])])

\* the visitor run over the Steps nodes, pushing onto errs; an exception in
\* the visitor ends the walk
StepsWalk(mdxAST, errs) ==
  LET nodes == visit(mdxAST, "Steps")
      f[i \in 0..Len(nodes)] ==
        IF i = 0 THEN Ok(errs)
        ELSE IF f[i - 1].threw THEN f[i - 1]
        ELSE StepsVisitor(nodes[i], f[i - 1].errors)
  IN f[Len(nodes)]

\* const errors = []; visit(...); return errors
validateSteps(mdxAST) == StepsWalk(mdxAST, <<>>)

----------------------------------------------------------------------------
(* validateTabs *)

TabsChildReason(child) ==
  <<"<Tabs> component must only contain <TabsBar> and <TabsPages> components as immediate children but found ">>
  \o nodeDescriptor(child)

OnlyOneBarReason == <<"<Tabs> can only have one <TabsBar> child">>
OnlyOnePagesReason == <<"<Tabs> can only have one <TabsPages> child">>
NoBarReason ==
  <<"No <TabsBar> found! <Tabs> component must contain <TabsBar> as an immediate child">>
NoPagesReason ==
  <<"No <TabsPages> found! <Tabs> component must contain <TabsPages> as an immediate child">>
MissingPageReason(id) ==
  <<"Found a <TabsBarItem> with id \"", id,
    "\" but no corresponding <TabsPageItem>. Tabs components must come in pairs.">>
MissingBarReason(id) ==
  <<"Found a <TabsPageItem> with id \"", id,
    "\" but no corresponding <TabsBarItem>. Tabs components must come in pairs.">>
DupeBarReason(id) ==
  <<"Found a <TabsBarItem> with a duplicate id \"", id,
    "\". <TabsBarItem>s must have unique ids.">>
DupePageReason(id) ==
  <<"Found a <TabsPageItem> with a duplicate id \"", id,
    "\". <TabsPageItem>s must have unique ids.">>

NonTabChildren(tabs) ==
  SelectSeq(tabs.children,
            LAMBDA child : /\ child.name # "TabsBar"
                           /\ child.name # "TabsPages"
                           /\ ~isEmptyParagraph(child))

ChildrenNamed(node, name) ==
  SelectSeq(node.children, LAMBDA child : child.name = name)

\* the `id` attributes of the items, in document order
ItemIdAttrs(items) ==
  SelectSeq(Flat([i \in 1..Len(items) |-> items[i].attributes]),
            LAMBDA attribute : attribute.name = "id")

\* (variant: the values are collected per occurrence, not per distinct value)
UniqIdsPerOccurrence(attrs) == [k \in 1..Len(attrs) |-> attrs[k].value]

\* new Set(new Map(attrs.map(a => [a.value, a])).keys()): the distinct values,
\* in the order of their first insertion
UniqIds(attrs) ==
  LET f[i \in 0..Len(attrs)] ==
        IF i = 0 THEN <<>>
        ELSE IF \E j \in 1..Len(f[i - 1]) : f[i - 1][j] = attrs[i].value
        THEN f[i - 1]
        ELSE Append(f[i - 1], attrs[i].value)
  IN f[Len(attrs)]

\* Set.prototype.difference: the elements of `a` not in `b`, in a's order
Difference(a, b) ==
  SelectSeq(a, LAMBDA id : \A j \in 1..Len(b) : b[j] # id)

\* (variant: the count > 1 filter is missing)
getDuplicateIdAttributesUnfiltered(attributes) == UniqIds(attributes)

getDuplicateIdAttributes(attributes) ==
  LET keys == UniqIds(attributes)
      counts == [k \in 1..Len(keys) |->
                   <<keys[k],
                     Cardinality({i \in 1..Len(attributes) :
                                    attributes[i].value = keys[k]})>>]
      dupes == SelectSeq(counts, LAMBDA entry : entry[2] > 1)
  IN [k \in 1..Len(dupes) |-> dupes[k][1]]

\* ids.forEach((id) => errors.push({...(tabs.position?.start ?? {}), reason, type})),
\* reasons[k] being the reason built for ids[k]
PushIds(reasons, errs, tabs) ==
  errs \o [k \in 1..Len(reasons) |->
             [reason |-> reasons[k], type |-> ERROR_TYPES.VALIDATION_ERROR]
             @@ OptionalStart(tabs)]

PairItems(tabs, tabsBar, tabsPages, errs) ==
  LET barItems == ChildrenNamed(tabsBar, "TabsBarItem")
      pageItems == ChildrenNamed(tabsPages, "TabsPageItem")
      barItemIdAttrs == ItemIdAttrs(barItems)
      pageItemIdAttrs == ItemIdAttrs(pageItems)
      barItemUniqIds == UniqIds(barItemIdAttrs)
      pageItemUniqIds == UniqIds(pageItemIdAttrs)
      missingPageItemIds == Difference(barItemUniqIds, pageItemUniqIds)
      missingBarItemIds == Difference(pageItemUniqIds, barItemUniqIds)
      e1 == PushIds([k \in 1..Len(missingPageItemIds) |->
                       MissingPageReason(missingPageItemIds[k])], errs, tabs)
      e2 == PushIds([k \in 1..Len(missingBarItemIds) |->
                       MissingBarReason(missingBarItemIds[k])], e1, tabs)
      dupeBarItemIds == getDuplicateIdAttributes(barItemIdAttrs)
      dupePageItemIds == getDuplicateIdAttributes(pageItemIdAttrs)
      e3 == PushIds([k \in 1..Len(dupeBarItemIds) |->
                       DupeBarReason(dupeBarItemIds[k])], e2, tabs)
  IN PushIds([k \in 1..Len(dupePageItemIds) |->
                DupePageReason(dupePageItemIds[k])], e3, tabs)

\* The steps of the visitor after the first take the outcome `s` of the steps
\* before them: an exception raised earlier is passed on untouched.

\* if (tabsBar.length > 1) { const nodeInfo = tabsBar.position.start; ... }
ExcessBar(tabsBar, s) ==
  IF ~s.threw /\ Len(tabsBar) > 1
  THEN Push(s.errors, StartOfArray(tabsBar),
            [reason |-> OnlyOneBarReason, type |-> ERROR_TYPES.VALIDATION_ERROR])
  ELSE s

\* if (tabsPages.length > 1) { const nodeInfo = tabsPages.position.start; ... }
ExcessPages(tabsPages, s) ==
  IF ~s.threw /\ Len(tabsPages) > 1
  THEN Push(s.errors, StartOfArray(tabsPages),
            [message |-> OnlyOnePagesReason, type |-> ERROR_TYPES.VALIDATION_ERROR])
  ELSE s

\* if (x == null) { const nodeInfo = tabs.position.start; errors.push(...) },
\* x being the first element of `found`
Missing(found, tabs, s, reason) ==
  IF ~s.threw /\ Len(found) = 0
  THEN Push(s.errors, StartOf(tabs),
            [reason |-> reason, type |-> ERROR_TYPES.VALIDATION_ERROR])
  ELSE s

\* if (tabsBar == null || tabsPages == null) { return errors; } and the
\* pairing and duplicate-id checks on the first TabsBar and TabsPages
Pair(tabs, tabsBar, tabsPages, s) ==
  IF s.threw \/ Len(tabsBar) = 0 \/ Len(tabsPages) = 0
  THEN s
  ELSE Ok(PairItems(tabs, tabsBar[1], tabsPages[1], s.errors))

TabsVisitor(node, errs) ==
  LET tabs == node
      nonTabChildren == NonTabChildren(tabs)
      tabsBar == ChildrenNamed(node, "TabsBar")
      tabsPages == ChildrenNamed(node, "TabsPages")
  IN Pair(tabs, tabsBar, tabsPages,
       Missing(tabsPages, tabs,
         Missing(tabsBar, tabs,
           ExcessPages(tabsPages,
             ExcessBar(tabsBar,
               PushEach(nonTabChildren, errs,
                        [i \in 1..Len(nonTabChildren) |->
                           TabsChildReason(nonTabChildren[i])]))),
           NoBarReason),
         NoPagesReason))

\* the visitor run over the Tabs nodes, pushing onto errs; an exception in the
\* visitor ends the walk
TabsWalk(mdxAST, errs) ==
  LET nodes == visit(mdxAST, "Tabs")
      f[i \in 0..Len(nodes)] ==
        IF i = 0 THEN Ok(errs)
        ELSE IF f[i - 1].threw THEN f[i - 1]
        ELSE TabsVisitor(nodes[i], f[i - 1].errors)
  IN f[Len(nodes)]

\* const errors = []; visit(...); return errors
validateTabs(mdxAST) == TabsWalk(mdxAST, <<>>)

----------------------------------------------------------------------------
(* The registry *)

\* (variant: the validators are registered the other way round)
validatorsReversed == <<"validateTabs", "validateSteps">>

validators == <<"validateSteps", "validateTabs">>

Invoke(validator, tree) ==
  IF validator = "validateSteps" THEN validateSteps(tree) ELSE validateTabs(tree)

----------------------------------------------------------------------------
(* The documents the model is run on *)

Step(children) == Elem("Step", <<>>, children)
Steps(children) == Elem("Steps", <<>>, children)
Callout == Elem("Callout", <<>>, <<>>)
Tabs(children) == Elem("Tabs", <<>>, children)
TabsBar(items) == Elem("TabsBar", <<>>, items)
TabsPages(items) == Elem("TabsPages", <<>>, items)
BarItem(attributes) == Elem("TabsBarItem", attributes, <<>>)
PageItem(attributes, children) == Elem("TabsPageItem", attributes, children)

ShortText == <<"H", "i">>
LongText == [i \in 1..(TruncLen + 3) |-> IF i \in {2, 5} THEN "\n" ELSE "x"]
EmptyParagraph == Paragraph(<<" ">>)

ItemAttributes == {<<IdAttr(v)>> : v \in Ids}

\* one Tabs with one TabsBar and one TabsPages, over every choice of items
PairingShapes ==
  {Root(<<Tabs(<<TabsBar(b), TabsPages(p)>>)>>) :
     b \in SeqsUpTo({BarItem(a) : a \in ItemAttributes}, MaxItems),
     p \in SeqsUpTo({PageItem(a, <<>>) : a \in ItemAttributes}, MaxItems)}

\* one Tabs over every sequence of immediate children
TabsChildren ==
  {TabsBar(<<BarItem(<<IdAttr("a")>>), BarItem(<<IdAttr("a")>>),
             PageItem(<<IdAttr("b")>>, <<>>)>>),
   TabsBar(<<BarItem(<<LabelAttr, IdAttr("a")>>), BarItem(<<LabelAttr>>)>>),
   TabsPages(<<PageItem(<<IdAttr("b")>>, <<>>), PageItem(<<IdAttr("b")>>, <<>>)>>),
   TabsPages(<<PageItem(<<IdAttr("a")>>, <<>>), PageItem(<<>>, <<>>)>>),
   EmptyParagraph, Paragraph(ShortText), Callout}

LayoutShapes == {Root(<<Tabs(c)>>) : c \in SeqsUpTo(TabsChildren, MaxChildren)}

\* one Steps over every sequence of immediate children
StepsChildren ==
  {Step(<<>>), Callout, Paragraph(ShortText), Paragraph(LongText), Code}

StepsShapes == {Root(<<Steps(c)>>) : c \in SeqsUpTo(StepsChildren, MaxChildren)}

\* documents of several components, nested ones included
Components ==
  {Steps(<<Step(<<>>), Paragraph(ShortText)>>),
   Steps(<<Step(<<Steps(<<Callout>>)>>)>>),
   Tabs(<<TabsBar(<<BarItem(<<IdAttr("a")>>)>>),
          TabsPages(<<PageItem(<<IdAttr("b")>>, <<>>)>>)>>),
   Tabs(<<TabsPages(<<PageItem(<<IdAttr("b")>>, <<>>),
                      PageItem(<<IdAttr("b")>>, <<>>)>>)>>),
   Tabs(<<TabsBar(<<>>), TabsBar(<<>>), TabsPages(<<>>)>>),
   Tabs(<<TabsBar(<<BarItem(<<IdAttr("a")>>)>>),
          TabsPages(<<PageItem(<<IdAttr("a")>>,
                        <<Tabs(<<TabsBar(<<BarItem(<<IdAttr("a")>>),
                                           BarItem(<<IdAttr("a")>>)>>),
                                 TabsPages(<<PageItem(<<IdAttr("a")>>, <<>>)>>)>>)>>)>>)>>),
   Tabs(<<Tabs(<<TabsBar(<<BarItem(<<IdAttr("a")>>)>>),
                 TabsPages(<<PageItem(<<IdAttr("b")>>, <<>>)>>)>>)>>),
   Steps(<<Step(<<Tabs(<<TabsBar(<<BarItem(<<IdAttr("b")>>)>>)>>)>>)>>)}

DocumentShapes ==
  {Root(c) : c \in SeqsUpTo(Components, MaxTop)}

Shapes == PairingShapes \cup LayoutShapes \cup StepsShapes \cup DocumentShapes

\* a tree as the parser delivers it, and trees built without position metadata
Trees ==
  {Annotate(s, 1, 1) : s \in Shapes} \cup StepsShapes \cup DocumentShapes

----------------------------------------------------------------------------
(* verifyMDX *)

ParseError ==
  [filePath |-> "file.mdx", reason |-> <<"Unexpected token">>, line |-> 1,
   column |-> 1, type |-> ERROR_TYPES.MDX_ERROR]

\* what frontmatter(), validateFreshnessDate() and validateReleaseDate() can
\* add for a file: each check either passes or reports
FrontmatterError ==
  [reason |-> <<"bad frontmatter">>, snippet |-> <<"---">>,
   type |-> ERROR_TYPES.FRONTMATTER_ERROR]
FieldError(reason) ==
  [reason |-> reason, type |-> ERROR_TYPES.FRONTMATTER_FIELD_ERROR]

FrontmatterOutcomes ==
  {(IF fm THEN <<FrontmatterError>> ELSE <<>>)
   \o (IF fresh THEN <<FieldError(<<"freshnessValidatedDate">>)>> ELSE <<>>)
   \o (IF rel THEN <<FieldError(<<"releaseDate">>)>> ELSE <<>>) :
     fm \in BOOLEAN, fresh \in BOOLEAN, rel \in BOOLEAN}

\* the state on entry to the validators: the text has been read and parsed
Entered(ast) ==
  /\ pc' = "validators"
  /\ vi' = 1
  /\ mapped' = <<>>
  /\ errors' = IF ast.type = "null" THEN <<ParseError>> ELSE <<>>

Init ==
  /\ mdxAst \in Trees \cup {NullAst}
  /\ pc = "validators"
  /\ vi = 1
  /\ mapped = <<>>
  /\ errors = IF mdxAst.type = "null" THEN <<ParseError>> ELSE <<>>
  /\ calls = <<>>
  /\ run = 1

\* (variant: the validators keep one errors array for the life of the module,
\* so an invocation starts from what the previous one of that validator left)
CallValidatorShared ==
  /\ pc = "validators"
  /\ mdxAst.type # "null"
  /\ vi <= Len(validators)
  /\ LET before == {i \in DOMAIN calls : calls[i].validator = validators[vi]}
         left == IF before = {} THEN <<>>
                 ELSE calls[CHOOSE i \in before : \A j \in before : j <= i].errors
         r == IF validators[vi] = "validateSteps"
              THEN StepsWalk(mdxAst, left)
              ELSE TabsWalk(mdxAst, left)
     IN /\ calls' = Append(calls, [validator |-> validators[vi], run |-> run,
                                   threw |-> r.threw, errors |-> r.errors])
        /\ IF r.threw
           THEN /\ pc' = "threw"
                /\ UNCHANGED <<vi, mapped, errors>>
           ELSE /\ vi' = vi + 1
                /\ mapped' = mapped \o r.errors
                /\ IF vi = Len(validators)
                   THEN pc' = "checked" /\ errors' = mapped \o r.errors
                   ELSE UNCHANGED <<pc, errors>>
  /\ UNCHANGED <<mdxAst, run>>

\* one callback of validators.flatMap((validator) => validator(mdxAst)); the
\* assignment to `errors` follows the last one, an exception leaves verifyMDX
CallValidator ==
  /\ pc = "validators"
  /\ mdxAst.type # "null"
  /\ vi <= Len(validators)
  /\ LET r == Invoke(validators[vi], mdxAst)
     IN /\ calls' = Append(calls, [validator |-> validators[vi], run |-> run,
                                   threw |-> r.threw, errors |-> r.errors])
        /\ IF r.threw
           THEN /\ pc' = "threw"
                /\ UNCHANGED <<vi, mapped, errors>>
           ELSE /\ vi' = vi + 1
                /\ mapped' = mapped \o r.errors
                /\ IF vi = Len(validators)
                   THEN pc' = "checked" /\ errors' = mapped \o r.errors
                   ELSE UNCHANGED <<pc, errors>>
  /\ UNCHANGED <<mdxAst, run>>

\* the frontmatter and date checks, which end verifyMDX
FrontmatterChecks ==
  /\ \/ pc = "checked"
     \/ pc = "validators" /\ mdxAst.type = "null"
  /\ \E found \in FrontmatterOutcomes : errors' = errors \o found
  /\ pc' = "done"
  /\ UNCHANGED <<mdxAst, vi, mapped, calls, run>>

\* verifyMDX is called again for the same file
Rerun ==
  /\ pc \in {"done", "threw"}
  /\ run < MaxRuns
  /\ run' = run + 1
  /\ Entered(mdxAst)
  /\ UNCHANGED <<mdxAst, calls>>

Next == CallValidator \/ FrontmatterChecks \/ Rerun

Spec == Init /\ [][Next]_vars

----------------------------------------------------------------------------
(* Vocabulary of the properties *)

Range(s) == {s[i] : i \in DOMAIN s}

RECURSIVE NodesOf(_)
NodesOf(node) == {node} \cup UNION {NodesOf(c) : c \in Range(node.children)}

Parsed == mdxAst.type # "null"

\* every node of the tree carries position metadata
Positioned == Parsed /\ \A n \in NodesOf(mdxAst) : HasPosition(n)

CallsOf(validator) == {i \in DOMAIN calls : calls[i].validator = validator}

ReasonOf(d) == IF "reason" \in DOMAIN d THEN d.reason ELSE <<>>

\* the diagnostic carries the start line and column of the node
AnchoredAt(d, node) ==
  /\ "line" \in DOMAIN d
  /\ "column" \in DOMAIN d
  /\ d.line = node.position.start.line
  /\ d.column = node.position.start.column

\* how many diagnostics of errs are anchored at the node with the reason
Count(errs, node, reason) ==
  Cardinality({k \in DOMAIN errs :
                 AnchoredAt(errs[k], node) /\ ReasonOf(errs[k]) = reason})

\* how many diagnostics of errs are anchored at the node and open with `head`
CountHead(errs, node, head) ==
  Cardinality({k \in DOMAIN errs :
                 /\ AnchoredAt(errs[k], node)
                 /\ ReasonOf(errs[k]) # <<>>
                 /\ ReasonOf(errs[k])[1] = head})

NodesNamed(name) == {n \in NodesOf(mdxAst) : n.name = name}
Named(node, name) == {c \in Range(node.children) : c.name = name}

\* the id values of the items called itemName under the collection, and how
\* often each occurs
ItemIds(collection, itemName) ==
  {a.value : a \in {b \in UNION {Range(item.attributes) :
                                   item \in Named(collection, itemName)} :
                      b.name = "id"}}

Occurrences(collection, itemName, id) ==
  Cardinality(UNION {{<<i, j>> : j \in {k \in DOMAIN collection.children[i].attributes :
                                          /\ collection.children[i].attributes[k].name = "id"
                                          /\ collection.children[i].attributes[k].value = id}} :
                     i \in {k \in DOMAIN collection.children :
                              collection.children[k].name = itemName}})

TheOne(S) == CHOOSE x \in S : TRUE

PairedTabs ==
  {t \in NodesNamed("Tabs") :
     Cardinality(Named(t, "TabsBar")) = 1 /\ Cardinality(Named(t, "TabsPages")) = 1}

PairingHeads ==
  {MissingPageReason("a")[1], MissingBarReason("a")[1],
   DupeBarReason("a")[1], DupePageReason("a")[1]}

----------------------------------------------------------------------------
(* validateSteps *)

DisallowedStepsChildren ==
  UNION {{c \in Range(t.children) : c.name # "Step"} : t \in NodesNamed("Steps")}

\* C1: on a tree whose nodes all carry a position, validateSteps returns
\* exactly one diagnostic per immediate child of a Steps node whose name is
\* not Step (prose counts), anchored at that child, and nothing else.
C1_StepsDiagnostics ==
  Positioned =>
    \A i \in CallsOf("validateSteps") :
      /\ ~calls[i].threw
      /\ Len(calls[i].errors) = Cardinality(DisallowedStepsChildren)
      /\ \A c \in DisallowedStepsChildren :
           CountHead(calls[i].errors, c, StepsReason(c)[1]) = 1

\* validateSteps has reported two or more children, prose among them, next to
\* a permitted Step
C1_Witness ==
  /\ Positioned
  /\ \E i \in CallsOf("validateSteps") : Len(calls[i].errors) >= 2
  /\ \E c \in DisallowedStepsChildren : c.type = "paragraph"
  /\ \E t \in NodesNamed("Steps") : Named(t, "Step") # {}

----------------------------------------------------------------------------
(* validateTabs *)

\* C2: on a tree whose nodes all carry a position, validateSteps and
\* validateTabs return a diagnostic list and never raise.
C2_NeverThrows ==
  Positioned => \A i \in DOMAIN calls : ~calls[i].threw

ExcessTabs(name) ==
  {t \in NodesNamed("Tabs") : Cardinality(Named(t, name)) > 1}

\* C3: a Tabs node with more than one TabsBar (TabsPages) child gets exactly
\* one "can only have one <TabsBar> (<TabsPages>) child" diagnostic.
C3_OneExcessDiagnostic ==
  Positioned =>
    \A i \in CallsOf("validateTabs") :
      /\ ExcessTabs("TabsBar") # {} =>
           /\ ~calls[i].threw
           /\ Cardinality({k \in DOMAIN calls[i].errors :
                             ReasonOf(calls[i].errors[k]) = OnlyOneBarReason})
                = Cardinality(ExcessTabs("TabsBar"))
      /\ ExcessTabs("TabsPages") # {} =>
           /\ ~calls[i].threw
           /\ Cardinality({k \in DOMAIN calls[i].errors :
                             ReasonOf(calls[i].errors[k]) = OnlyOnePagesReason})
                = Cardinality(ExcessTabs("TabsPages"))

\* what C4 says of the diagnostics errs for the Tabs node t
MissingHolds(errs, t) ==
  /\ Count(errs, t, NoBarReason) = IF Named(t, "TabsBar") = {} THEN 1 ELSE 0
  /\ Count(errs, t, NoPagesReason) = IF Named(t, "TabsPages") = {} THEN 1 ELSE 0
  /\ (Named(t, "TabsBar") = {} \/ Named(t, "TabsPages") = {}) =>
       \A h \in PairingHeads : CountHead(errs, t, h) = 0

IncompleteTabs ==
  {t \in NodesNamed("Tabs") : Named(t, "TabsBar") = {} \/ Named(t, "TabsPages") = {}}

\* C4: every Tabs node without a TabsBar and/or without a TabsPages gets
\* exactly one "No <TabsBar> found" and/or "No <TabsPages> found" diagnostic
\* at its own position and no pairing or duplicate-id diagnostic, wherever in
\* the tree it stands.
C4_MissingCollections ==
  Positioned =>
    \A i \in CallsOf("validateTabs") : \A t \in IncompleteTabs :
      ~calls[i].threw /\ MissingHolds(calls[i].errors, t)

\* what C5 says of the diagnostics errs for the Tabs node t
PairingHolds(errs, t) ==
  LET B == ItemIds(TheOne(Named(t, "TabsBar")), "TabsBarItem")
      P == ItemIds(TheOne(Named(t, "TabsPages")), "TabsPageItem")
  IN \A x \in Ids :
       /\ Count(errs, t, MissingPageReason(x)) = IF x \in B \ P THEN 1 ELSE 0
       /\ Count(errs, t, MissingBarReason(x)) = IF x \in P \ B THEN 1 ELSE 0

DuplicatesHold(errs, t) ==
  LET bar == TheOne(Named(t, "TabsBar"))
      pages == TheOne(Named(t, "TabsPages"))
  IN \A x \in Ids :
       /\ Count(errs, t, DupeBarReason(x))
            = IF Occurrences(bar, "TabsBarItem", x) > 1 THEN 1 ELSE 0
       /\ Count(errs, t, DupePageReason(x))
            = IF Occurrences(pages, "TabsPageItem", x) > 1 THEN 1 ELSE 0

ChildrenHold(errs, t) ==
  \A c \in Range(t.children) :
    CountHead(errs, c, TabsChildReason(c)[1])
      = IF c.name \notin {"TabsBar", "TabsPages"} /\ ~isEmptyParagraph(c)
        THEN 1 ELSE 0

\* C7: every immediate child of a Tabs node that is neither TabsBar, TabsPages
\* nor an empty paragraph gets exactly one "must only contain" diagnostic at
\* its own position, and the other children get none.
C7_ImmediateChildren ==
  Positioned =>
    \A i \in CallsOf("validateTabs") : \A t \in NodesNamed("Tabs") :
      ~calls[i].threw /\ ChildrenHold(calls[i].errors, t)

\* The rules of C4 and C7 as they hold of every list validateTabs returns
RulesWhenReturned ==
  Positioned =>
    \A i \in CallsOf("validateTabs") :
      ~calls[i].threw =>
        \A t \in NodesNamed("Tabs") :
          MissingHolds(calls[i].errors, t) /\ ChildrenHold(calls[i].errors, t)

----------------------------------------------------------------------------
(* The registry, repeated runs and the shape of a diagnostic *)

Structural(errs) ==
  SelectSeq(errs, LAMBDA d : d.type = ERROR_TYPES.VALIDATION_ERROR)

\* the invocations of the validator in the current run of verifyMDX
InRun(validator) == {i \in CallsOf(validator) : calls[i].run = run}

RECURSIVE Digits(_)
Digits(n) == IF n < 10 THEN <<n>> ELSE Append(Digits(n \div 10), n % 10)

\* the node starting at line a is visited no later than the one at line b, in
\* depth-first pre-order (line numbers as Annotate gives them)
VisitedNoLater(a, b) ==
  LET da == Digits(a)
      db == Digits(b)
  IN \/ /\ Len(da) <= Len(db)
        /\ \A k \in 1..Len(da) : da[k] = db[k]
     \/ \E k \in 1..Len(da) :
          /\ k <= Len(db)
          /\ da[k] < db[k]
          /\ \A j \in 1..(k - 1) : da[j] = db[j]

\* the line of the Steps or Tabs node a diagnostic was raised for
ComponentLine(d) ==
  IF ReasonOf(d)[1] \in {StepsReason(Callout)[1], TabsChildReason(Callout)[1]}
  THEN d.line \div 10
  ELSE d.line

InVisitOrder(errs) ==
  \A k, m \in DOMAIN errs :
    k < m => VisitedNoLater(ComponentLine(errs[k]), ComponentLine(errs[m]))

\* C8: once the validators have run over a parsed tree, the structural
\* diagnostics of verifyMDX are what validateSteps returned followed by what
\* validateTabs returned, nothing dropped, doubled or reordered (an exception
\* of either leaves verifyMDX); each validator's part is in visit order.
C8_RegistryOrder ==
  (Parsed /\ (pc # "validators" \/ vi > 1)) =>
    /\ Cardinality(InRun("validateSteps")) = 1
    /\ LET S == calls[TheOne(InRun("validateSteps"))]
       IN IF S.threw
          THEN pc = "threw" /\ InRun("validateTabs") = {}
          ELSE /\ Positioned => InVisitOrder(S.errors)
               /\ pc = "validators" => InRun("validateTabs") = {}
               /\ pc # "validators" =>
                    /\ Cardinality(InRun("validateTabs")) = 1
                    /\ LET T == calls[TheOne(InRun("validateTabs"))]
                       IN IF T.threw
                          THEN pc = "threw"
                          ELSE /\ pc \in {"checked", "done"}
                               /\ Structural(errors) = S.errors \o T.errors
                               /\ Positioned => InVisitOrder(T.errors)

\* verifyMDX has finished with diagnostics of both validators, several Tabs
\* nodes among them, and a frontmatter error
C8_Witness ==
  /\ Positioned
  /\ pc = "done"
  /\ InRun("validateSteps") # {}
  /\ InRun("validateTabs") # {}
  /\ Len(calls[TheOne(InRun("validateSteps"))].errors) > 0
  /\ Len(calls[TheOne(InRun("validateTabs"))].errors) > 1
  /\ Cardinality(NodesNamed("Tabs")) > 1
  /\ Len(errors) > Len(Structural(errors))

====
